---- MODULE Spec2Model ----
(***************************************************************************)
(* Listing repository (scraper/persist.py, class DataPersistence) and the  *)
(* crawl run that feeds it (scraper/olx_scraper.py, cli/tasks.py).         *)
(*                                                                         *)
(* The offers table is a set of rows; a row carries the columns the        *)
(* reconciliation logic reads or writes.  Timestamps are integers read     *)
(* from a clock that never runs backwards.                                 *)
(***************************************************************************)
EXTENDS Integers, Sequences, FiniteSets, TLC

\* ---------------------------------------------------------------- bounds
MaxTime == 1        \* the clock runs over 0..MaxTime
MaxSaves == 2       \* the per-id count of successful upserts saturates here
MaxPages == 2       \* largest max_pages a run is started with
MaxPending == 2     \* most scraping tasks created and not yet started
MaxBatch == 2       \* most candidates in a batch handed to save_properties_batch

\* ---------------------------------------------------------------- config
MAX_RETRIES == 3

\* ---------------------------------------------------------------- values
Ids == {"a", "b"}
NULL == "NULL"
Prices == {"50000", "52000"}
Titles == {"flat"}
Times == 0..MaxTime

Min(x, y) == IF x <= y THEN x ELSE y

\* PropertyData as handed to save_property: price_value is Optional, title
\* may be None (the offers table then rejects the row, whatever the other
\* fields are), is_active defaults to True and no producer in the repository
\* sets it otherwise.  scraped_at is the clock reading at which the candidate
\* was built (__post_init__), the time the listing was observed.
PropertyData ==
    [ad_id : Ids, title : Titles, price_value : Prices \cup {NULL},
     is_active : {TRUE}, scraped_at : Times]
    \cup [ad_id : Ids, title : {NULL}, price_value : {NULL},
          is_active : {TRUE}, scraped_at : Times]

VARIABLES
    offers,         \* rows of table offers
    price_history,  \* rows of the price-history log
    now,            \* the clock (datetime.utcnow)
    saves,          \* history: per ad_id, successful upserts so far (saturating)
    swept,          \* history: ad_ids a sweep deactivated and no upsert touched since
    last_op,        \* history: the last repository call and what it returned
    status,         \* task_status['scraper']['status']; the state of the session
    pc,             \* where the run under way stands
    pending,        \* scraping tasks created whose body has not started
    stop_requested, \* a stop request waits for the event loop
    page,           \* loop variable of the page loop
    max_pages,      \* the run's max_pages
    properties,     \* self.properties, the candidates accumulated by the run
    stats,          \* self.stats
    progress,       \* what progress_callback has stored for the caller
    fetch_log,      \* history: the page fetches of the run, in order
    calls,          \* per caller, its save_property call in flight
    last_batch,     \* history: the last save_properties_batch call and its counts
    item            \* an item-level function, its input and what it returned

repo_vars == <<offers, price_history, now, saves, swept, last_op>>
run_vars == <<status, pc, pending, stop_requested, page, max_pages, properties,
              stats, progress, fetch_log>>
aux_vars == <<calls, last_batch, item>>
vars == <<offers, price_history, now, saves, swept, last_op,
          status, pc, pending, stop_requested, page, max_pages, properties,
          stats, progress, fetch_log, calls, last_batch, item>>

\* ------------------------------------------------------------ the table
\* SELECT ... FROM offers WHERE ad_id = ?
existing(tbl, ad_id) == {r \in tbl : r.ad_id = ad_id}

\* Variants of the UPDATE statement, each the statement with one slip.
\* The new row is written next to the old one instead of replacing it.
UpdateOffers_keeps_old_row(tbl, property_data, utcnow) ==
    tbl \cup {[r EXCEPT !.title = property_data.title,
                        !.price_value = property_data.price_value,
                        !.is_active = TRUE,
                        !.last_seen_at = utcnow] :
              r \in {x \in tbl : x.ad_id = property_data.ad_id}}

\* first_seen_at is among the assigned columns.
UpdateOffers_resets_first_seen(tbl, property_data, utcnow) ==
    {IF r.ad_id = property_data.ad_id
        THEN [r EXCEPT !.title = property_data.title,
                       !.price_value = property_data.price_value,
                       !.is_active = TRUE,
                       !.first_seen_at = utcnow,
                       !.last_seen_at = utcnow]
        ELSE r : r \in tbl}

\* is_active = 1 is missing from the assigned columns.
UpdateOffers_keeps_inactive(tbl, property_data, utcnow) ==
    {IF r.ad_id = property_data.ad_id
        THEN [r EXCEPT !.title = property_data.title,
                       !.price_value = property_data.price_value,
                       !.last_seen_at = utcnow]
        ELSE r : r \in tbl}

\* UPDATE offers SET <mutable columns>, is_active = 1, last_seen_at = ? WHERE ad_id = ?
\* first_seen_at and ad_id are not among the assigned columns.
UpdateOffers(tbl, property_data, utcnow) ==
    {IF r.ad_id = property_data.ad_id
        THEN [r EXCEPT !.title = property_data.title,
                       !.price_value = property_data.price_value,
                       !.is_active = TRUE,
                       !.last_seen_at = utcnow]
        ELSE r : r \in tbl}

\* Variant of the INSERT: the row is stamped with the candidate's scraped_at.
InsertOffers_stamps_scraped_at(tbl, property_data, utcnow) ==
    tbl \cup {[ad_id |-> property_data.ad_id,
               title |-> property_data.title,
               price_value |-> property_data.price_value,
               is_active |-> property_data.is_active,
               first_seen_at |-> property_data.scraped_at,
               last_seen_at |-> property_data.scraped_at]}

\* INSERT INTO offers (...) VALUES (...), first_seen_at = last_seen_at = utcnow()
\* (the scraped_at column is written too; nothing reads it and the rows here
\* do not carry it).
InsertOffers(tbl, property_data, utcnow) ==
    tbl \cup {[ad_id |-> property_data.ad_id,
               title |-> property_data.title,
               price_value |-> property_data.price_value,
               is_active |-> property_data.is_active,
               first_seen_at |-> utcnow,
               last_seen_at |-> utcnow]}

\* save_property: (is_new, operation) and the table afterwards.  A None title
\* violates title TEXT NOT NULL in either statement; the exception is caught,
\* nothing is committed, and (False, "error") is returned.
save_property(tbl, property_data, utcnow) ==
    IF property_data.title = NULL
    THEN [offers |-> tbl, is_new |-> FALSE, operation |-> "error"]
    ELSE IF existing(tbl, property_data.ad_id) # {}
    THEN [offers |-> UpdateOffers(tbl, property_data, utcnow),
          is_new |-> FALSE, operation |-> "updated"]
    ELSE [offers |-> InsertOffers(tbl, property_data, utcnow),
          is_new |-> TRUE, operation |-> "inserted"]

\* save_property from the statement after the SELECT on, for a call whose
\* SELECT has returned: found says whether it returned a row.  The UPDATE
\* addresses the row by ad_id; the INSERT of an ad_id that has a row by now
\* violates ad_id TEXT PRIMARY KEY, and that exception too is caught and
\* answered with (False, "error").
save_property_after_select(tbl, property_data, found, utcnow) ==
    IF property_data.title = NULL
    THEN [offers |-> tbl, is_new |-> FALSE, operation |-> "error"]
    ELSE IF found
    THEN [offers |-> UpdateOffers(tbl, property_data, utcnow),
          is_new |-> FALSE, operation |-> "updated"]
    ELSE IF existing(tbl, property_data.ad_id) # {}
    THEN [offers |-> tbl, is_new |-> FALSE, operation |-> "error"]
    ELSE [offers |-> InsertOffers(tbl, property_data, utcnow),
          is_new |-> TRUE, operation |-> "inserted"]

\* Variant of the sweep: last_seen_at = ? is set on every row.
mark_inactive_properties_stamps_all(tbl, seen_ad_ids, session_time) ==
    {IF r.ad_id \notin seen_ad_ids /\ r.is_active
        THEN [r EXCEPT !.is_active = FALSE, !.last_seen_at = session_time]
        ELSE [r EXCEPT !.last_seen_at = session_time] : r \in tbl}

\* Variant of the sweep: IN where the statement has NOT IN.
mark_inactive_properties_in(tbl, seen_ad_ids, session_time) ==
    {IF r.ad_id \in seen_ad_ids /\ r.is_active
        THEN [r EXCEPT !.is_active = FALSE, !.last_seen_at = session_time]
        ELSE r : r \in tbl}

\* mark_inactive_properties: the table afterwards.
mark_inactive_properties(tbl, seen_ad_ids, session_time) ==
    IF seen_ad_ids # {}
    THEN {IF r.ad_id \notin seen_ad_ids /\ r.is_active
             THEN [r EXCEPT !.is_active = FALSE, !.last_seen_at = session_time]
             ELSE r : r \in tbl}
    ELSE {IF r.is_active
             THEN [r EXCEPT !.is_active = FALSE, !.last_seen_at = session_time]
             ELSE r : r \in tbl}

ActiveIds(tbl) == {r.ad_id : r \in {x \in tbl : x.is_active}}

\* ------------------------------------------------------------- history
NoOp ==
    [op |-> "none", ad_id |-> NULL, seen |-> {}, operation |-> "none",
     affected |-> {}, reactivated |-> FALSE, is_new |-> FALSE, scraped_at |-> 0]

\* The callers that may be inside save_property at the same time, each on a
\* connection of its own.
Callers == {"p", "q"}

\* A caller that is not inside save_property.
IdleCall ==
    [pc |-> "idle", property_data |-> <<>>, found |-> FALSE, is_new |-> FALSE,
     operation |-> "none", fresh |-> FALSE, overlap |-> FALSE]

\* No batch has been saved yet.
NoBatch ==
    [batch |-> <<>>, at |-> 0, new |-> 0, updated |-> 0, errors |-> 0]

\* No item-level function has been given an input.
NoItem == [fn |-> "none", input |-> <<>>, out |-> <<>>]

\* ------------------------------------------------------------ Init
InitState ==
    /\ offers = {}
    /\ price_history = <<>>
    /\ now = 0
    /\ saves = [i \in Ids |-> 0]
    /\ swept = {}
    /\ last_op = NoOp
    /\ status = "idle"
    /\ pc = "idle"
    /\ pending = 0
    /\ stop_requested = FALSE
    /\ page = 0
    /\ max_pages = 0
    /\ properties = <<>>
    /\ stats = [total_processed |-> 0, new_listings |-> 0,
                updated_listings |-> 0, errors |-> 0]
    /\ progress = [current_page |-> 0, current_items |-> 0]
    /\ fetch_log = <<>>
    /\ calls = [c \in Callers |-> IdleCall]
    /\ last_batch = NoBatch

Init ==
    /\ InitState
    /\ item = NoItem

\* The clock at the next call: time may have passed since the last one.
ClockNext == {t \in Times : now <= t /\ t <= now + 1}

\* ------------------------------------------------- repository operations
\* A caller invokes save_property(property_data) at clock reading t.
SaveProperty(property_data, t) ==
    LET res == save_property(offers, property_data, t)
        ok == res.operation # "error"
        id == property_data.ad_id
    IN  /\ now' = t
        /\ offers' = res.offers
        /\ UNCHANGED price_history
        /\ saves' = IF ok THEN [saves EXCEPT ![id] = Min(MaxSaves, @ + 1)] ELSE saves
        /\ swept' = IF ok THEN swept \ {id} ELSE swept
        /\ last_op' = [op |-> "save", ad_id |-> id, seen |-> {},
                       operation |-> res.operation, affected |-> {},
                       reactivated |-> ok /\ id \in swept,
                       is_new |-> res.is_new,
                       scraped_at |-> property_data.scraped_at]
        /\ UNCHANGED run_vars
        /\ UNCHANGED aux_vars

\* A caller invokes mark_inactive_properties(seen_ad_ids, session_time) at
\* clock reading t; session_time is the caller's, any time up to t.
MarkInactive(seen_ad_ids, session_time, t) ==
    LET tbl == mark_inactive_properties(offers, seen_ad_ids, session_time)
        hit == ActiveIds(offers) \ ActiveIds(tbl)
    IN  /\ now' = t
        /\ offers' = tbl
        /\ UNCHANGED price_history
        /\ UNCHANGED saves
        /\ swept' = swept \cup hit
        /\ last_op' = [op |-> "sweep", ad_id |-> NULL, seen |-> seen_ad_ids,
                       operation |-> "swept", affected |-> hit,
                       reactivated |-> FALSE, is_new |-> FALSE, scraped_at |-> 0]
        /\ UNCHANGED run_vars
        /\ UNCHANGED aux_vars

\* The candidate is built, and stamped scraped_at, at the present clock
\* reading; save_property reads the clock when it runs, at that reading or
\* a later one.
ObservedAt == now

Upsert ==
    \E property_data \in PropertyData, t \in ClockNext :
        /\ property_data.scraped_at = ObservedAt
        /\ SaveProperty(property_data, t)

Sweep ==
    \E seen_ad_ids \in SUBSET Ids, t \in ClockNext :
        \E session_time \in 0..t : MarkInactive(seen_ad_ids, session_time, t)

Next ==
    \/ Upsert
    \/ Sweep

Spec == Init /\ [][Next]_vars

\* ------------------------------------------- callers at the same time
\* save_property opens a connection of its own per call and holds no lock
\* between its SELECT and its INSERT or UPDATE: the SELECT runs outside any
\* transaction, the write statement opens one and the with-block commits it.
\* So a call is two steps, and another caller's steps may fall in between.
InFlight(c) == calls[c].pc \in {"select", "write"}

CandidateOf(c) == calls[c].property_data[1]

\* The candidates of caller c: complete ones, and told apart from the other
\* caller's by their price.
ConcurrentData(c) ==
    {d \in PropertyData :
        d.title # NULL /\ d.price_value = (IF c = "p" THEN "50000" ELSE "52000")}

\* Caller c enters save_property with a candidate built at the present
\* clock reading.  fresh and overlap are history: whether the ad_id had no
\* row at entry, and whether another call for the same ad_id was in flight
\* at some moment of this call.
CallSaveProperty(c, property_data) ==
    LET id == property_data.ad_id
        same == {d \in Callers \ {c} :
                    InFlight(d) /\ CandidateOf(d).ad_id = id}
    IN  /\ ~InFlight(c)
        /\ property_data.scraped_at = ObservedAt
        /\ calls' = [d \in Callers |->
                        IF d = c
                        THEN [pc |-> "select", property_data |-> <<property_data>>,
                              found |-> FALSE, is_new |-> FALSE,
                              operation |-> "none",
                              fresh |-> existing(offers, id) = {},
                              overlap |-> same # {}]
                        ELSE IF d \in same
                        THEN [calls[d] EXCEPT !.overlap = TRUE]
                        ELSE calls[d]]
        /\ UNCHANGED <<repo_vars, run_vars, last_batch, item>>

\* The SELECT of caller c: existing = cursor.fetchone().
SelectExisting(c) ==
    /\ calls[c].pc = "select"
    /\ calls' = [calls EXCEPT ![c].pc = "write",
                              ![c].found = existing(offers, CandidateOf(c).ad_id) # {}]
    /\ UNCHANGED <<repo_vars, run_vars, last_batch, item>>

\* The UPDATE or INSERT of caller c with its commit, or the exception and
\* the return of (False, "error"), at clock reading t.
ExecuteStatement(c, t) ==
    LET property_data == CandidateOf(c)
        res == save_property_after_select(offers, property_data, calls[c].found, t)
        ok == res.operation # "error"
        id == property_data.ad_id
    IN  /\ calls[c].pc = "write"
        /\ now' = t
        /\ offers' = res.offers
        /\ UNCHANGED price_history
        /\ saves' = IF ok THEN [saves EXCEPT ![id] = Min(MaxSaves, @ + 1)] ELSE saves
        /\ swept' = IF ok THEN swept \ {id} ELSE swept
        /\ last_op' = [op |-> "save", ad_id |-> id, seen |-> {},
                       operation |-> res.operation, affected |-> {},
                       reactivated |-> ok /\ id \in swept,
                       is_new |-> res.is_new,
                       scraped_at |-> property_data.scraped_at]
        /\ calls' = [calls EXCEPT ![c].pc = "done",
                                  ![c].is_new = res.is_new,
                                  ![c].operation = res.operation]
        /\ UNCHANGED <<run_vars, last_batch, item>>

CallBegins ==
    \E c \in Callers :
        \E property_data \in ConcurrentData(c) :
            CallSaveProperty(c, property_data)

CallSelects == \E c \in Callers : SelectExisting(c)

CallWrites == \E c \in Callers, t \in ClockNext : ExecuteStatement(c, t)

NextConcurrent == CallBegins \/ CallSelects \/ CallWrites

SpecConcurrent == Init /\ [][NextConcurrent]_vars

\* ------------------------------------------------- the seller classifier
\* Scores and confidences are decimal fractions with one digit: they are kept
\* in tenths, and a confidence as the fraction num / den.
Max(x, y) == IF x >= y THEN x ELSE y

\* The texts given to classify_seller are made of these fragments, joined by
\* blanks in any order:
\*   kvartyra                "квартира 2 кімнати"
\*   vlasnyk                 "власник"
\*   pryvatna_osoba          "приватна особа"
\*   ahentstvo_nerukhomosti  "агентство нерухомості"
\*   two_phones              "0671234567, 0501234567"
\*   long_professional       "гарантуємо досвід" in a description of more
\*                           than 500 characters
Fragments ==
    {"kvartyra", "vlasnyk", "pryvatna_osoba", "ahentstvo_nerukhomosti",
     "two_phones", "long_professional"}

\* The seller_type_hint: None, "Приватна особа", "Агентство", "Бізнес".
Hints == {NULL, "pryvatna osoba", "ahentstvo", "biznes"}

\* The entries of owner_keywords found in a fragment (keyword in combined_text).
owner_keywords(f) ==
    CASE f = "vlasnyk" -> {"vlasnyk"}
      [] f = "pryvatna_osoba" -> {"pryvatna osoba"}
      [] OTHER -> {}

\* The entries of agency_keywords found in a fragment: "агентство" holds
\* "агент" as well.
agency_keywords(f) ==
    CASE f = "ahentstvo_nerukhomosti" -> {"ahentstvo", "ahent"}
      [] OTHER -> {}

\* The patterns of owner_phrases that match in a fragment.
owner_phrases(f) ==
    CASE f = "pryvatna_osoba" -> {"pryvatn.*osob"}
      [] OTHER -> {}

\* The patterns of agency_phrases that match in a fragment.
agency_phrases(f) ==
    CASE f = "ahentstvo_nerukhomosti" -> {"ahentstv.*nerukhomost"}
      [] OTHER -> {}

\* owner_score in tenths: 0.8 for an owner hint, 0.3 per keyword present and
\* 0.4 per phrase pattern that matches.
owner_score(text, hint) ==
    (IF hint = "pryvatna osoba" THEN 8 ELSE 0)
    + 3 * Cardinality(UNION {owner_keywords(f) : f \in text})
    + 4 * Cardinality(UNION {owner_phrases(f) : f \in text})

\* agency_score in tenths: 0.8 for an agency hint, 0.3 per keyword, 0.4 per
\* phrase pattern, 0.2 for a long description with professional language and
\* 0.2 for more than one phone number.
agency_score(text, hint) ==
    (IF hint = "ahentstvo" THEN 8 ELSE 0)
    + 3 * Cardinality(UNION {agency_keywords(f) : f \in text})
    + 4 * Cardinality(UNION {agency_phrases(f) : f \in text})
    + (IF "long_professional" \in text THEN 2 ELSE 0)
    + (IF "two_phones" \in text THEN 2 ELSE 0)

\* Variant: the winning score over the total score.
confidence_over_total(score, total_score) ==
    [num |-> Min(score, total_score), den |-> total_score]

\* Variant: the winning score itself.
confidence_is_score(score, total_score) ==
    [num |-> score, den |-> 10]

\* min(score / max(total_score, 1.0), 1.0)
confidence(score, total_score) ==
    [num |-> Min(score, Max(total_score, 10)), den |-> Max(total_score, 10)]

\* classify_seller: seller_type and confidence.
classify_seller(text, hint) ==
    LET o == owner_score(text, hint)
        a == agency_score(text, hint)
        total_score == o + a
    IN  IF total_score = 0
        THEN [seller_type |-> "unknown", confidence |-> [num |-> 0, den |-> 10]]
        ELSE IF o > a
        THEN [seller_type |-> "owner", confidence |-> confidence(o, total_score)]
        ELSE [seller_type |-> "agency", confidence |-> confidence(a, total_score)]

ClassifyInputs == [text : SUBSET Fragments, hint : Hints]

\* ------------------------------------------------- the district resolvers
\* Location and description texts are made of these fragments:
\*   misto          "Івано-Франківськ"
\*   shevchenka     "вул. Шевченка"
\*   bilia_vokzalu  "біля вокзалу"
\*   kaskad         "мікрорайон Каскад"
DistrictFragments == {"misto", "shevchenka", "bilia_vokzalu", "kaskad"}

DEFAULT_DISTRICT == "Tsentr"

\* The entry of the street mapping whose street occurs in a fragment, if any:
\* "Шевченка" is a street of the district Центр.
street_mapping(f) ==
    CASE f = "shevchenka" -> <<[street |-> "Shevchenka", district |-> "Tsentr"]>>
      [] OTHER -> <<>>

\* district_patterns in the order of the dict, each with the fragments its
\* regular expression finds a match in.
district_patterns ==
    << [matches |-> {}, district |-> "Tsentr"],
       [matches |-> {}, district |-> "Pasichna"],
       [matches |-> {}, district |-> "BAM"],
       [matches |-> {"kaskad"}, district |-> "Kaskad"],
       [matches |-> {"bilia_vokzalu"}, district |-> "Zaliznychnyi (Vokzal)"],
       [matches |-> {}, district |-> "Braty"],
       [matches |-> {}, district |-> "Sofiivka"],
       [matches |-> {}, district |-> "Budivelnykiv"],
       [matches |-> {}, district |-> "Naberezhna"],
       [matches |-> {}, district |-> "Opryshivtsi"] >>

StreetsIn(text) == {f \in text : street_mapping(f) # <<>>}

\* PropertyParser._determine_district: the street mapping first, then the
\* patterns in order, and district None with source 'unknown' when nothing
\* matches.
determine_district(location_text, description) ==
    LET combined_text == location_text \cup description
        hits == {i \in 1..Len(district_patterns) :
                    district_patterns[i].matches \cap combined_text # {}}
    IN  IF StreetsIn(combined_text) # {}
        THEN LET m == street_mapping(CHOOSE f \in StreetsIn(combined_text) : TRUE)[1]
             IN  [district |-> m.district, street |-> m.street,
                  source |-> "street_mapping", raised |-> FALSE]
        ELSE IF hits # {}
        THEN [district |-> district_patterns[CHOOSE i \in hits :
                                                \A j \in hits : i <= j].district,
              street |-> NULL, source |-> "text_heuristic", raised |-> FALSE]
        ELSE [district |-> NULL, street |-> NULL, source |-> "unknown",
              raised |-> FALSE]

\* BotasaurusOLXScraper._determine_location: the street mapping over the
\* location text; when no street is found the next statement reads
\* self.config.DISTRICTS, which ScrapingConfig does not have (DISTRICTS is a
\* name of the module), and the AttributeError leaves the function before
\* the district names and the default are tried.  It returns no source.
determine_location(location_text) ==
    IF StreetsIn(location_text) # {}
    THEN LET m == street_mapping(CHOOSE f \in StreetsIn(location_text) : TRUE)[1]
         IN  [district |-> m.district, street |-> m.street,
              source |-> NULL, raised |-> FALSE]
    ELSE [district |-> NULL, street |-> NULL, source |-> NULL, raised |-> TRUE]

DistrictInputs ==
    [location_text : SUBSET DistrictFragments,
     description : SUBSET DistrictFragments]

LocationInputs == [location_text : SUBSET DistrictFragments]

\* ------------------------------------------------------ the price text
\* A price text by what extract_price looks for in it: the first number
\* (None when the text has no digits, as in "" or "Договірна") and the
\* currencies whose markers occur in it (USD: "USD", "$", "DOLLAR"; EUR:
\* "EUR", "€", "EURO"; UAH: "UAH", "₴", "ГРН").
PriceNumbers == {"0", "50000"}

PriceTexts ==
    [number : PriceNumbers \cup {NULL}, markers : SUBSET {"USD", "EUR", "UAH"}]

\* extract_price: (price_value, currency).  No number, no currency; with a
\* number the markers are tried in the order USD, EUR, UAH, and a text
\* without any marker counts as USD.  The value is not tested against a
\* range.
extract_price(price_text) ==
    IF price_text.number = NULL
    THEN [price_value |-> NULL, currency |-> ""]
    ELSE [price_value |-> price_text.number,
          currency |-> IF "USD" \in price_text.markers THEN "USD"
                       ELSE IF "EUR" \in price_text.markers THEN "EUR"
                       ELSE IF "UAH" \in price_text.markers THEN "UAH"
                       ELSE "USD"]

\* A listing container as far as the price step of _parse_single_listing
\* reads it: whether its title, price, location and link elements were all
\* found, the id in its link (None when the link has none), its price text.
Containers ==
    [elements : BOOLEAN, olx_id : Ids \cup {NULL}, price_text : PriceTexts]

\* _parse_single_listing up to the price: None (the empty sequence) when an
\* element or the id is missing or the currency is not "USD", else the
\* id, price and currency of the Property under construction.
parse_listing_price(container) ==
    IF ~container.elements THEN <<>>
    ELSE IF container.olx_id = NULL THEN <<>>
    ELSE LET price == extract_price(container.price_text)
         IN  IF price.currency # "USD" THEN <<>>
             ELSE <<[olx_id |-> container.olx_id,
                     price_usd |-> price.price_value,
                     currency |-> price.currency]>>

\* ------------------------------------------------------ item-level calls
\* The item-level functions are applied to one input each.
ItemInputs ==
    [fn : {"classify_seller"}, input : ClassifyInputs, out : {<<>>}]
    \cup [fn : {"determine_district"}, input : DistrictInputs, out : {<<>>}]
    \cup [fn : {"determine_location"}, input : LocationInputs, out : {<<>>}]
    \cup [fn : {"parse_listing_price"}, input : Containers, out : {<<>>}]

InitItem ==
    /\ InitState
    /\ item \in ItemInputs

ClassifySeller ==
    /\ item.fn = "classify_seller"
    /\ item.out = <<>>
    /\ item' = [item EXCEPT
                   !.out = <<classify_seller(item.input.text, item.input.hint)>>]
    /\ UNCHANGED <<repo_vars, run_vars, calls, last_batch>>

DetermineDistrict ==
    /\ item.fn = "determine_district"
    /\ item.out = <<>>
    /\ item' = [item EXCEPT
                   !.out = <<determine_district(item.input.location_text,
                                                item.input.description)>>]
    /\ UNCHANGED <<repo_vars, run_vars, calls, last_batch>>

DetermineLocation ==
    /\ item.fn = "determine_location"
    /\ item.out = <<>>
    /\ item' = [item EXCEPT
                   !.out = <<determine_location(item.input.location_text)>>]
    /\ UNCHANGED <<repo_vars, run_vars, calls, last_batch>>

\* out is the sequence holding what the function returned.
ParseListingPrice ==
    /\ item.fn = "parse_listing_price"
    /\ item.out = <<>>
    /\ item' = [item EXCEPT !.out = <<parse_listing_price(item.input)>>]
    /\ UNCHANGED <<repo_vars, run_vars, calls, last_batch>>

NextItem ==
    \/ ParseListingPrice
    \/ ClassifySeller
    \/ DetermineDistrict
    \/ DetermineLocation

SpecItem == InitItem /\ [][NextItem]_vars

\* ------------------------------------------------------------ the crawl run
\* A listing container of a result page, by what _parse_single_listing makes
\* of it: a Property ("ok"), None because an element or the id is missing or
\* the currency is not USD ("skipped"), or None because the extraction raised
\* and the function's own except caught it ("raised").
Listing(id, price, at) ==
    [ad_id |-> id, title |-> "flat", price_value |-> price, is_active |-> TRUE,
     scraped_at |-> at]

Ok(id, price) == [kind |-> "ok", ad_id |-> id, price_value |-> price]
Skipped == [kind |-> "skipped", ad_id |-> NULL, price_value |-> NULL]
Raises == [kind |-> "raised", ad_id |-> NULL, price_value |-> NULL]

\* The listing containers one fetched page can show.
PageResults ==
    {<<>>,
     <<Ok("a", "50000")>>,
     <<Ok("a", "52000"), Raises, Ok("b", "52000")>>,
     <<Skipped>>}

\* _parse_single_listing: the Property (a one-element list here) or None
\* (the empty list); every exception is caught inside, so nothing is ever
\* raised to the caller.
parse_single_listing(container, at) ==
    [raised |-> FALSE,
     property_data |-> IF container.kind = "ok"
                       THEN <<Listing(container.ad_id, container.price_value, at)>>
                       ELSE <<>>]

\* _parse_page: the Properties of the page in order; total_processed counts
\* them, errors counts the containers whose parse raised to this loop.
RECURSIVE parse_page(_, _)
parse_page(containers, at) ==
    IF containers = <<>>
    THEN [properties |-> <<>>, total_processed |-> 0, errors |-> 0]
    ELSE LET one == parse_single_listing(Head(containers), at)
             rest == parse_page(Tail(containers), at)
         IN  IF one.raised
             THEN [rest EXCEPT !.errors = @ + 1]
             ELSE IF one.property_data = <<>>
             THEN rest
             ELSE [rest EXCEPT !.properties = one.property_data \o @,
                               !.total_processed = @ + 1]

\* The containers of a page whose extraction raised.
RaisedIn(containers) ==
    Cardinality({i \in 1..Len(containers) : containers[i].kind = "raised"})

\* The ad_ids of a list of candidates.
SeenIds(props) == {props[i].ad_id : i \in 1..Len(props)}

\* Variant of the batch: the first error ends it.
RECURSIVE save_properties_batch_stops_at_error(_, _, _)
save_properties_batch_stops_at_error(tbl, props, utcnow) ==
    IF props = <<>>
    THEN [offers |-> tbl, new |-> 0, updated |-> 0, errors |-> 0]
    ELSE LET one == save_property(tbl, Head(props), utcnow)
             rest == IF one.operation = "error"
                     THEN [offers |-> tbl, new |-> 0, updated |-> 0, errors |-> 0]
                     ELSE save_properties_batch_stops_at_error(
                              one.offers, Tail(props), utcnow)
         IN  [offers |-> rest.offers,
              new |-> rest.new + (IF one.operation = "inserted" THEN 1 ELSE 0),
              updated |-> rest.updated + (IF one.operation = "updated" THEN 1 ELSE 0),
              errors |-> rest.errors + (IF one.operation = "error" THEN 1 ELSE 0)]

\* save_properties_batch: save_property on each candidate in order; the
\* table afterwards and the counts of inserted and updated rows.
RECURSIVE save_properties_batch(_, _, _)
save_properties_batch(tbl, props, utcnow) ==
    IF props = <<>>
    THEN [offers |-> tbl, new |-> 0, updated |-> 0, errors |-> 0]
    ELSE LET one == save_property(tbl, Head(props), utcnow)
             rest == save_properties_batch(one.offers, Tail(props), utcnow)
         IN  [offers |-> rest.offers,
              new |-> rest.new + (IF one.operation = "inserted" THEN 1 ELSE 0),
              updated |-> rest.updated + (IF one.operation = "updated" THEN 1 ELSE 0),
              errors |-> rest.errors + (IF one.operation = "error" THEN 1 ELSE 0)]

\* ------------------------------------------------------- batch calls
\* The candidates of a batch, built at the present clock reading: for ad_id
\* a one without title and one with each price, for ad_id b one with a price.
BatchData ==
    {d \in PropertyData :
        /\ d.scraped_at = ObservedAt
        /\ d.title = NULL => d.ad_id = "a"
        /\ d.title # NULL => d.price_value # NULL
        /\ d.ad_id = "b" => d.price_value \in {NULL, "50000"}}

\* The batches handed to save_properties_batch: up to MaxBatch candidates.
Batches == UNION {[1..k -> BatchData] : k \in 0..MaxBatch}

\* The candidates of a batch that save_property can store.
Storable(props) == {i \in 1..Len(props) : props[i].title # NULL}

\* A caller invokes save_properties_batch(properties) at clock reading t.
SavePropertiesBatch(props, t) ==
    LET res == save_properties_batch(offers, props, t)
        stored == {props[i].ad_id : i \in Storable(props)}
    IN  /\ now' = t
        /\ offers' = res.offers
        /\ UNCHANGED price_history
        /\ saves' = [id \in Ids |->
                        Min(MaxSaves,
                            saves[id] + Cardinality({i \in Storable(props) :
                                                        props[i].ad_id = id}))]
        /\ swept' = swept \ stored
        /\ last_op' = [NoOp EXCEPT !.op = "batch"]
        /\ last_batch' = [batch |-> props, at |-> t, new |-> res.new,
                          updated |-> res.updated, errors |-> res.errors]
        /\ UNCHANGED <<run_vars, calls, item>>

BatchSave ==
    \E props \in Batches, t \in ClockNext : SavePropertiesBatch(props, t)

NextBatch == BatchSave

SpecBatch == Init /\ [][NextBatch]_vars

\* _save_results: nothing to do for an empty run; otherwise the batch is
\* written, and an exception of the store is logged and swallowed
\* (db_ok = FALSE: nothing was written).  No other call on the store is made.
save_results(tbl, props, utcnow, db_ok) ==
    IF props = <<>> \/ ~db_ok
    THEN [offers |-> tbl, new |-> 0, updated |-> 0, errors |-> 0]
    ELSE save_properties_batch(tbl, props, utcnow)

\* Variant of the outer except: it sweeps with what the run has seen so far.
critical_error_handler_sweeps(tbl, props, utcnow) ==
    mark_inactive_properties(tbl, SeenIds(props), utcnow)

\* The outer except of scrape_olx_listings: log and re-raise; the store is
\* left as it is.
critical_error_handler(tbl, props, utcnow) == tbl

Count(props, id) == Cardinality({i \in 1..Len(props) : props[i].ad_id = id})

ZeroStats ==
    [total_processed |-> 0, new_listings |-> 0, updated_listings |-> 0, errors |-> 0]

NoProgress == [current_page |-> 0, current_items |-> 0]

\* The event loop runs one thing at a time, and the body of a scraping task
\* never awaits: request handlers and task starts happen only while no run is
\* under way.
LoopFree == pc \in {"idle", "done"}

\* Variant of stop_scraping_task: the status is written, the task is left to
\* start.
stop_scraping_task_leaves_task ==
    /\ LoopFree
    /\ pending > 0 \/ stop_requested
    /\ status' = IF pending > 0 THEN "cancelled" ELSE status
    /\ stop_requested' = FALSE
    /\ UNCHANGED <<pc, pending, page, max_pages, properties, stats, progress,
                   fetch_log>>
    /\ UNCHANGED repo_vars
    /\ UNCHANGED aux_vars

\* Variant of stop_scraping_task: the task is cancelled, the status is left.
stop_scraping_task_keeps_status ==
    /\ LoopFree
    /\ pending > 0 \/ stop_requested
    /\ pending' = IF pending > 0 THEN pending - 1 ELSE pending
    /\ stop_requested' = FALSE
    /\ UNCHANGED <<status, pc, page, max_pages, properties, stats, progress, fetch_log>>
    /\ UNCHANGED repo_vars
    /\ UNCHANGED aux_vars

\* TaskManager.stop_scraping_task, run by the stop handler: a scraper task
\* that is not done is cancelled and the status is overwritten; with no such
\* task the call returns False and writes nothing.  A task that is not done
\* when a handler runs has not started, and a cancelled task never starts.
stop_scraping_task ==
    /\ LoopFree
    /\ pending > 0 \/ stop_requested
    /\ pending' = IF pending > 0 THEN pending - 1 ELSE pending
    /\ status' = IF pending > 0 THEN "cancelled" ELSE status
    /\ stop_requested' = FALSE
    /\ UNCHANGED <<pc, page, max_pages, properties, stats, progress, fetch_log>>
    /\ UNCHANGED repo_vars
    /\ UNCHANGED aux_vars

\* A stop request reaches the server while the body of a task is running; its
\* handler has to wait for the event loop.
StopRequested ==
    /\ pc = "call"
    /\ ~stop_requested
    /\ stop_requested' = TRUE
    /\ UNCHANGED <<status, pc, pending, page, max_pages, properties, stats,
                   progress, fetch_log>>
    /\ UNCHANGED repo_vars
    /\ UNCHANGED aux_vars

\* TaskManager.start_scraping_task: the task is created; its body has not run.
start_scraping_task ==
    /\ LoopFree
    /\ pending < MaxPending
    /\ pending' = pending + 1
    /\ UNCHANGED <<status, pc, stop_requested, page, max_pages, properties, stats,
                   progress, fetch_log>>
    /\ UNCHANGED repo_vars
    /\ UNCHANGED aux_vars

\* The start handler of the server: 409 if the status reads 'running',
\* otherwise the task is created and 202 is returned.
StartRun ==
    /\ status # "running"
    /\ start_scraping_task

\* The body of a created task starts: status 'running', current_page 0.
TaskBegin(mp) ==
    /\ LoopFree
    /\ pending > 0
    /\ pending' = pending - 1
    /\ status' = "running"
    /\ pc' = "call"
    /\ max_pages' = mp
    /\ page' = 0
    /\ properties' = <<>>
    /\ stats' = ZeroStats
    /\ progress' = NoProgress
    /\ fetch_log' = <<>>
    /\ UNCHANGED stop_requested
    /\ UNCHANGED repo_vars
    /\ UNCHANGED aux_vars

\* The task calls run_scraper_with_progress, which replaces the bound method
\* scrape_olx_listings by the plain function scrape_with_progress(driver, data)
\* and calls it with data alone: TypeError before any page is fetched; the
\* except of the task records status 'error'.
run_scraper_with_progress ==
    /\ pc = "call"
    /\ status' = "error"
    /\ pc' = "done"
    /\ UNCHANGED <<pending, stop_requested, page, max_pages, properties, stats,
                   progress, fetch_log>>
    /\ UNCHANGED repo_vars
    /\ UNCHANGED aux_vars

\* run_scraper, the entry point of the command line: a fresh scraper object
\* enters the page loop of scrape_olx_listings.  status is the state of this
\* call: running until it returns its stats (completed) or raises (error).
run_scraper(mp) ==
    /\ LoopFree
    /\ pending = 0
    /\ ~stop_requested
    /\ status' = "running"
    /\ pc' = "loop"
    /\ max_pages' = mp
    /\ page' = 0
    /\ properties' = <<>>
    /\ stats' = ZeroStats
    /\ progress' = NoProgress
    /\ fetch_log' = <<>>
    /\ UNCHANGED <<pending, stop_requested>>
    /\ UNCHANGED repo_vars
    /\ UNCHANGED aux_vars

\* Variant of the iteration: the loop goes on after a page without Properties.
PageParsed_ignores_empty(containers) ==
    LET res == parse_page(containers, now)
    IN  /\ pc = "loop"
        /\ page < max_pages
        /\ page' = page + 1
        /\ properties' = properties \o res.properties
        /\ stats' = [stats EXCEPT !.total_processed = @ + res.total_processed,
                                  !.errors = @ + res.errors]
        /\ fetch_log' = Append(fetch_log,
                               [page |-> page + 1, outcome |-> "parsed",
                                containers |-> Len(containers),
                                raised |-> RaisedIn(containers)])
        /\ pc' = IF page' = max_pages THEN "save" ELSE "loop"
        /\ UNCHANGED <<status, pending, stop_requested, max_pages, progress>>
        /\ UNCHANGED repo_vars
        /\ UNCHANGED aux_vars

\* Variant of the iteration: the Properties of the page are saved at once.
PageParsed_saves_page(containers) ==
    LET res == parse_page(containers, now)
    IN  /\ pc = "loop"
        /\ page < max_pages
        /\ page' = page + 1
        /\ properties' = properties \o res.properties
        /\ stats' = [stats EXCEPT !.total_processed = @ + res.total_processed,
                                  !.errors = @ + res.errors]
        /\ fetch_log' = Append(fetch_log,
                               [page |-> page + 1, outcome |-> "parsed",
                                containers |-> Len(containers),
                                raised |-> RaisedIn(containers)])
        /\ pc' = IF Len(res.properties) = 0 \/ page' = max_pages
                 THEN "save" ELSE "loop"
        /\ offers' = save_properties_batch(offers, res.properties, now).offers
        /\ UNCHANGED <<price_history, now, saves, swept, last_op>>
        /\ UNCHANGED <<status, pending, stop_requested, max_pages, progress>>
        /\ UNCHANGED aux_vars

\* One iteration of the page loop whose fetch succeeds: the page is parsed,
\* its Properties are appended, and an empty result ends the loop.
PageParsed(containers) ==
    LET res == parse_page(containers, now)
    IN  /\ pc = "loop"
        /\ page < max_pages
        /\ page' = page + 1
        /\ properties' = properties \o res.properties
        /\ stats' = [stats EXCEPT !.total_processed = @ + res.total_processed,
                                  !.errors = @ + res.errors]
        /\ fetch_log' = Append(fetch_log,
                               [page |-> page + 1, outcome |-> "parsed",
                                containers |-> Len(containers),
                                raised |-> RaisedIn(containers)])
        /\ pc' = IF Len(res.properties) = 0 \/ page' = max_pages
                 THEN "save" ELSE "loop"
        /\ UNCHANGED <<status, pending, stop_requested, max_pages, progress>>
        /\ UNCHANGED repo_vars
        /\ UNCHANGED aux_vars

\* Variant of the failing iteration: the same page is fetched again.
PageFailed_fetches_again ==
    /\ pc = "loop"
    /\ page < max_pages
    /\ page' = page + 1
    /\ stats' = [stats EXCEPT !.errors = @ + 1]
    /\ fetch_log' = fetch_log \o
                        <<[page |-> page + 1, outcome |-> "failed",
                           containers |-> 0, raised |-> 0],
                          [page |-> page + 1, outcome |-> "failed",
                           containers |-> 0, raised |-> 0]>>
    /\ pc' = IF page' = max_pages THEN "save" ELSE "loop"
    /\ UNCHANGED <<status, pending, stop_requested, max_pages, properties, progress>>
    /\ UNCHANGED repo_vars
    /\ UNCHANGED aux_vars

\* One iteration whose driver.get / wait_for_element raises: counted, continue.
PageFailed ==
    /\ pc = "loop"
    /\ page < max_pages
    /\ page' = page + 1
    /\ stats' = [stats EXCEPT !.errors = @ + 1]
    /\ fetch_log' = Append(fetch_log,
                           [page |-> page + 1, outcome |-> "failed",
                            containers |-> 0, raised |-> 0])
    /\ pc' = IF page' = max_pages THEN "save" ELSE "loop"
    /\ UNCHANGED <<status, pending, stop_requested, max_pages, properties, progress>>
    /\ UNCHANGED repo_vars
    /\ UNCHANGED aux_vars

\* An exception outside the per-page try (the outer except re-raises it; the
\* call ends in error).
CriticalError ==
    /\ pc \in {"loop", "save"}
    /\ status' = "error"
    /\ pc' = "done"
    /\ offers' = critical_error_handler(offers, properties, now)
    /\ UNCHANGED <<price_history, now, saves, swept, last_op>>
    /\ UNCHANGED <<pending, stop_requested, page, max_pages, properties, stats,
                   progress, fetch_log>>
    /\ UNCHANGED aux_vars

\* The loop has ended: _save_results, then the stats are returned.
SaveResults(t, db_ok) ==
    LET res == save_results(offers, properties, t, db_ok)
        wrote == properties # <<>> /\ db_ok
    IN  /\ pc = "save"
        /\ offers' = res.offers
        /\ now' = t
        /\ UNCHANGED price_history
        /\ saves' = IF wrote
                    THEN [i \in Ids |-> Min(MaxSaves, saves[i] + Count(properties, i))]
                    ELSE saves
        /\ swept' = IF wrote THEN swept \ SeenIds(properties) ELSE swept
        /\ last_op' = [op |-> "batch", ad_id |-> NULL, seen |-> SeenIds(properties),
                       operation |-> IF wrote THEN "saved" ELSE "none",
                       affected |-> {}, reactivated |-> FALSE,
                       is_new |-> FALSE, scraped_at |-> 0]
        /\ stats' = [stats EXCEPT !.new_listings = res.new,
                                  !.updated_listings = res.updated]
        /\ status' = "completed"
        /\ pc' = "done"
        /\ UNCHANGED <<pending, stop_requested, page, max_pages, properties,
                       progress, fetch_log>>
        /\ UNCHANGED aux_vars

BeginTask == \E mp \in 1..MaxPages : TaskBegin(mp)

RunScraper == \E mp \in 1..MaxPages : run_scraper(mp)

ScrapePage == \E containers \in PageResults : PageParsed(containers)

Finish == \E t \in ClockNext, db_ok \in BOOLEAN : SaveResults(t, db_ok)

NextRun ==
    \/ StartRun
    \/ stop_scraping_task
    \/ StopRequested
    \/ BeginTask
    \/ run_scraper_with_progress
    \/ RunScraper
    \/ ScrapePage
    \/ PageFailed
    \/ CriticalError
    \/ Finish

SpecRun == Init /\ [][NextRun]_vars

\* ============================================================ properties
RowIds(tbl) == {r.ad_id : r \in tbl}
HistoryOf(log, id) == {i \in 1..Len(log) : log[i].ad_id = id}

\* C1: after any sequence of save_property and mark_inactive_properties calls
\* the table holds exactly one row for every ad_id that was ever successfully
\* upserted and no row for any other ad_id.
C1_OneRecordPerId ==
    \A id \in Ids :
        Cardinality(existing(offers, id)) = IF saves[id] > 0 THEN 1 ELSE 0

\* C1 witness: one id upserted repeatedly, the other never, and a sweep has
\* deactivated a record.
C1_Witness ==
    /\ saves["a"] >= 2
    /\ saves["b"] = 0
    /\ swept # {}

\* C2: a successful upsert appends a price-history entry if and only if the
\* incoming price differs from the stored price of that listing (or the
\* listing is new and its price is not null); it appends exactly one entry
\* then, none otherwise, and leaves the earlier entries as they are.
C2_PriceHistoryOnChange ==
    [][\A property_data \in PropertyData, t \in Times :
        (SaveProperty(property_data, t) /\ last_op'.operation # "error") =>
            LET old == existing(offers, property_data.ad_id)
                changed == IF old = {}
                           THEN property_data.price_value # NULL
                           ELSE \A r \in old : r.price_value # property_data.price_value
            IN  price_history' =
                    IF changed
                    THEN Append(price_history,
                                [ad_id |-> property_data.ad_id,
                                 price_value |-> property_data.price_value])
                    ELSE price_history]_vars

\* C3: mark_inactive_properties with an empty seen list is rejected with an
\* error and changes no record: every record active before the call is still
\* active afterwards with the same last_seen_at.
C3_EmptySweepRejected ==
    [][\A session_time \in Times, t \in Times :
        MarkInactive({}, session_time, t) =>
            /\ last_op'.operation = "error"
            /\ \A r \in offers : r.is_active => r \in offers']_vars

\* A step that is a call of the repository: it records the call in last_op
\* and is no step of a run.
RepositoryCall(op) == last_op'.op = op /\ UNCHANGED run_vars

\* C6: with a non-empty seen list the sweep deactivates exactly the records
\* that were active and whose ad_id is not in the list: the active records
\* afterwards are the active records before whose ad_id is in the list, and
\* no row appears or disappears.
C6_SweepDeactivatesComplement ==
    [][(RepositoryCall("sweep") /\ last_op'.seen # {}) =>
        /\ ActiveIds(offers') = ActiveIds(offers) \cap last_op'.seen
        /\ RowIds(offers') = RowIds(offers)
        /\ Cardinality(offers') = Cardinality(offers)]_vars

\* C6 witness: a sweep whose seen list {a} is a strict subset of the active
\* ids has run: a stayed active and b was deactivated.
C6_Witness ==
    /\ last_op.op = "sweep"
    /\ last_op.seen = {"a"}
    /\ last_op.affected = {"b"}
    /\ ActiveIds(offers) = {"a"}

\* C7: no upsert and no sweep changes the first_seen_at or the ad_id of a
\* record that exists: every row of the table is found after the step under
\* the same ad_id with the same first_seen_at.
C7_FirstSeenImmutable ==
    [][\A r \in offers :
        /\ existing(offers', r.ad_id) # {}
        /\ \A r2 \in existing(offers', r.ad_id) :
               r2.first_seen_at = r.first_seen_at]_vars

\* C7 witness: a record upserted again at a later time than its insertion,
\* after a sweep had deactivated it.
C7_Witness ==
    /\ last_op.op = "save"
    /\ last_op.reactivated
    /\ \E r \in existing(offers, last_op.ad_id) :
           r.first_seen_at < r.last_seen_at

\* C8: no operation replaces the last_seen_at of a record by an earlier value.
C8_LastSeenMonotone ==
    [][\A r \in offers :
        \A r2 \in existing(offers', r.ad_id) :
            r2.last_seen_at >= r.last_seen_at]_vars

\* C9: a successful upsert of a record that is inactive makes it active,
\* keeps its first_seen_at and sets its last_seen_at to the time of this
\* upsert.
C9_Reactivation ==
    [][(RepositoryCall("save") /\ last_op'.operation # "error") =>
        \A r \in existing(offers, last_op'.ad_id) :
            ~r.is_active =>
                /\ existing(offers', r.ad_id) # {}
                /\ \A r2 \in existing(offers', r.ad_id) :
                       /\ r2.is_active
                       /\ r2.first_seen_at = r.first_seen_at
                       /\ r2.last_seen_at = now']_vars

\* C9 witness: the last call upserted a record that a sweep had deactivated,
\* at a later time than the sweep's stamp.
C9_Witness ==
    /\ last_op.op = "save"
    /\ last_op.operation = "updated"
    /\ last_op.reactivated
    /\ \E r \in existing(offers, last_op.ad_id) :
           r.is_active /\ r.last_seen_at = now /\ r.first_seen_at < now

\* C10: the second upsert of a candidate whose price is the stored price
\* leaves exactly one record, exactly one price-history entry for it, and the
\* first_seen_at the first upsert set.
C10_IdempotentReingestion ==
    [][\A property_data \in PropertyData, t \in Times :
        (/\ SaveProperty(property_data, t)
         /\ last_op'.operation = "updated"
         /\ saves[property_data.ad_id] = 1
         /\ property_data.price_value # NULL
         /\ \A r \in existing(offers, property_data.ad_id) :
                r.price_value = property_data.price_value) =>
            /\ Cardinality(existing(offers', property_data.ad_id)) = 1
            /\ Cardinality(HistoryOf(price_history', property_data.ad_id)) = 1
            /\ \A r \in existing(offers, property_data.ad_id) :
                   \A r2 \in existing(offers', property_data.ad_id) :
                       r2.first_seen_at = r.first_seen_at]_vars

\* C4: no step of a run other than the last step of a run that ends
\* completed deactivates a record; a run that ends in error or cancelled has
\* no other steps, so between its start and its end no is_active goes from
\* true to false.
C4_NoSweepUnlessCompleted ==
    [][(status' \in {"error", "cancelled"} \/ pc' # "done") =>
        ActiveIds(offers) \subseteq ActiveIds(offers')]_vars

\* C4 witness: a run that had accumulated candidates ended in error, and a
\* record it had not seen is in the table, active.
C4_Witness ==
    /\ pc = "done"
    /\ status = "error"
    /\ properties # <<>>
    /\ ActiveIds(offers) \ SeenIds(properties) # {}

\* C5: once a run has ended completed, every record whose ad_id the run did
\* not see is inactive.
C5_CompletedRunSweeps ==
    (pc = "done" /\ status = "completed") =>
        \A r \in offers : r.ad_id \notin SeenIds(properties) => ~r.is_active

\* C11 as claimed: save_property returns is_new = True exactly when no row
\* existed for the candidate's ad_id before the call; the row it then inserts
\* has first_seen_at = last_seen_at = the candidate's scraped_at; when a row
\* existed it returns is_new = False and sets last_seen_at to scraped_at.
C11_UpsertStampsObservedAt ==
    [][RepositoryCall("save") =>
        LET id == last_op'.ad_id
            old == existing(offers, id)
        IN  /\ last_op'.is_new <=> old = {}
            /\ last_op'.is_new =>
                   /\ existing(offers', id) # {}
                   /\ \A r \in existing(offers', id) :
                          /\ r.first_seen_at = last_op'.scraped_at
                          /\ r.last_seen_at = last_op'.scraped_at
            /\ old # {} =>
                   \A r \in existing(offers', id) :
                       r.last_seen_at = last_op'.scraped_at]_vars

\* C11: a save_property call that does not end in error returns is_new = True
\* exactly when no row existed for the candidate's ad_id before the call; the
\* row it then inserts has first_seen_at = last_seen_at = the clock reading of
\* the call; when a row existed it returns is_new = False and sets
\* last_seen_at to the clock reading of the call.  A call that ends in error
\* returns is_new = False and leaves the table as it was.
C11_UpsertStampsCallTime ==
    [][RepositoryCall("save") =>
        LET id == last_op'.ad_id
            old == existing(offers, id)
        IN  IF last_op'.operation = "error"
            THEN ~last_op'.is_new /\ offers' = offers
            ELSE /\ last_op'.is_new <=> old = {}
                 /\ existing(offers', id) # {}
                 /\ \A r \in existing(offers', id) :
                        /\ r.last_seen_at = now'
                        /\ old = {} => r.first_seen_at = now']_vars

\* C11 witness: the last call inserted a candidate that had been observed
\* before the clock reading of the call, and an earlier call updated a row.
C11_Witness ==
    /\ last_op.op = "save"
    /\ last_op.is_new
    /\ last_op.scraped_at < now
    /\ \E r \in existing(offers, last_op.ad_id) :
           r.first_seen_at = now /\ r.last_seen_at = now
    /\ \E id \in Ids : saves[id] >= 2

\* ------------------------------------------------------------ the session
Terminal == {"completed", "error", "cancelled"}

\* A step that touches the state of a session: the status is written or a
\* created task leaves the queue.
SessionStep == status' # status \/ pending' < pending

\* A session leaves idle: the body of its task, or the call of run_scraper,
\* starts and the status reads 'running'.
SessionStarts == LoopFree /\ pc' \notin {"idle", "done"} /\ status' = "running"

\* The running session ends in a terminal state.
SessionEnds ==
    /\ ~LoopFree
    /\ status = "running"
    /\ pc' = "done"
    /\ status' \in Terminal

\* A created task is cancelled before its body has started.
SessionCancelledUnstarted ==
    /\ LoopFree
    /\ pc' = pc
    /\ pending' = pending - 1
    /\ status' = "cancelled"

\* C12 as claimed: the only transitions of a session are idle to running and
\* running to one of completed, error, cancelled; the status is written by no
\* other step, so a session that has ended never changes state again.
C12_SessionStateMachine ==
    [][SessionStep => SessionStarts \/ SessionEnds]_vars

\* C12: the only transitions of a session are idle to running, running to one
\* of completed, error, cancelled, and idle to cancelled for a task that is
\* cancelled before its body has started; the status is written by no other
\* step, so a session that has ended never changes state again.
C12_SessionStateMachineWithEarlyCancel ==
    [][SessionStep => SessionStarts \/ SessionEnds \/ SessionCancelledUnstarted]_vars

\* C12 witness: one session has run and ended, and a task created after it
\* was cancelled before it started.
C12_Witness ==
    /\ pc = "done"
    /\ status = "cancelled"

\* The scraping tasks that exist and are not done: the created ones that have
\* not started and the one whose body is running.
ActiveTasks == pending + (IF pc = "call" THEN 1 ELSE 0)

\* C13: the start handler creates a task only when no scraping task is
\* active, so at most one scraping task is created and not done at any time.
C13_AtMostOneActiveTask == ActiveTasks <= 1

\* C14: a session that a stop request reached while it was running has ended
\* cancelled once its run is over.
C14_CancelHonoured ==
    (pc = "done" /\ stop_requested) => status = "cancelled"

\* ------------------------------------------------------------ the page loop
FailedFetches == {i \in 1..Len(fetch_log) : fetch_log[i].outcome = "failed"}

\* The fetches that returned a page without any listing container.
EmptyPages ==
    {i \in 1..Len(fetch_log) :
        fetch_log[i].outcome = "parsed" /\ fetch_log[i].containers = 0}

C16_PagesInOrder ==
    /\ Len(fetch_log) = page
    /\ page <= max_pages
    /\ \A i \in 1..Len(fetch_log) : fetch_log[i].page = i

\* C16 witness: a run has fetched page 1, which failed, and then page 2.
C16_Witness ==
    /\ Len(fetch_log) = 2
    /\ fetch_log[1].outcome = "failed"
    /\ fetch_log[2].outcome = "parsed"
    /\ fetch_log[2].containers > 0

\* The fetches a run has made of page p.
Attempts(p) == {i \in 1..Len(fetch_log) : fetch_log[i].page = p}

\* C17: a page that is skipped and counted as an error has been fetched more
\* than once, and at most 1 + MAX_RETRIES times.
C17_FailedPageWasRetried ==
    \A i \in FailedFetches :
        /\ Cardinality(Attempts(fetch_log[i].page)) > 1
        /\ Cardinality(Attempts(fetch_log[i].page)) <= 1 + MAX_RETRIES

\* C18: a run that has ended after the fetch failed on more than half of its
\* pages has ended in error.
C18_MajorityFailureFails ==
    (pc = "done" /\ 2 * Cardinality(FailedFetches) > Len(fetch_log)) =>
        status = "error"

\* The containers whose extraction raised, over the fetches of a run.
RECURSIVE SumRaised(_)
SumRaised(log) == IF log = <<>> THEN 0 ELSE Head(log).raised + SumRaised(Tail(log))

\* C19: every container whose extraction raised is counted once in
\* stats.errors, next to the failed fetches, and the containers after it on
\* the page are still parsed.
C19_ItemFailureCounted ==
    stats.errors = Cardinality(FailedFetches) + SumRaised(fetch_log)

\* C20: while a run is between two pages, the caller's current_page and
\* current_items are those of the run.
C20_ProgressFollowsRun ==
    (pc = "loop" /\ page >= 1) =>
        /\ progress.current_page = page
        /\ progress.current_items = stats.total_processed

\* ---------------------------------------------------------------- C21
\* Two calls of save_property for the same ad_id that were in flight at the
\* same time and have both returned.
OverlappingPair(c, d) ==
    /\ c # d
    /\ calls[c].pc = "done" /\ calls[d].pc = "done"
    /\ calls[c].overlap /\ calls[d].overlap
    /\ CandidateOf(c).ad_id = CandidateOf(d).ad_id

\* C21: two concurrent upserts for the same external_id are serialized:
\* neither of them ends in an error, one record results, and when the id had
\* no record as they began exactly one of them reports is_new = TRUE and the
\* other is_new = FALSE.
C21_ConcurrentUpsertsSerialized ==
    \A c, d \in Callers :
        OverlappingPair(c, d) =>
            /\ calls[c].operation # "error" /\ calls[d].operation # "error"
            /\ Cardinality(existing(offers, CandidateOf(c).ad_id)) = 1
            /\ (calls[c].fresh /\ calls[d].fresh) =>
                   (calls[c].is_new # calls[d].is_new)

\* What the calls do: a record results and at most one call reports
\* is_new = TRUE, but the call that lost the race to INSERT ends in an error.
C21_OneRecordResults ==
    \A c, d \in Callers :
        OverlappingPair(c, d) =>
            /\ Cardinality(existing(offers, CandidateOf(c).ad_id)) = 1
            /\ ~(calls[c].is_new /\ calls[d].is_new)

C21_Witness ==
    \E c, d \in Callers :
        /\ OverlappingPair(c, d)
        /\ calls[c].fresh /\ calls[d].fresh
        /\ calls[c].operation = "inserted"
        /\ calls[d].operation = "error"

\* ---------------------------------------------------------------- C22
Classified == item.fn = "classify_seller" /\ item.out # <<>>

\* C22: when owner_score and agency_score are both zero the type is unknown
\* with confidence 0; otherwise the type is the side with the higher score
\* and confidence = winning score / (owner_score + agency_score).
C22_ConfidenceOverSum ==
    Classified =>
        LET o == owner_score(item.input.text, item.input.hint)
            a == agency_score(item.input.text, item.input.hint)
            r == item.out[1]
        IN  /\ (o = 0 /\ a = 0) =>
                   (r.seller_type = "unknown" /\ r.confidence.num = 0)
            /\ o > a => r.seller_type = "owner"
            /\ a > o => r.seller_type = "agency"
            /\ (o + a > 0) =>
                   r.confidence.num * (o + a) = Max(o, a) * r.confidence.den

\* C22 as the code has it: both scores zero gives unknown with confidence 0;
\* otherwise the type is owner when owner_score is greater and agency when
\* it is not (a tie is agency), and confidence is the winning score over the
\* sum of the scores when the sum is at least 1.0, and the winning score
\* itself when the sum is below 1.0.
C22_ConfidenceOverSumAtLeastOne ==
    Classified =>
        LET o == owner_score(item.input.text, item.input.hint)
            a == agency_score(item.input.text, item.input.hint)
            r == item.out[1]
        IN  /\ (o = 0 /\ a = 0) =>
                   (r.seller_type = "unknown" /\ r.confidence.num = 0)
            /\ o > a => r.seller_type = "owner"
            /\ (a >= o /\ a > 0) => r.seller_type = "agency"
            /\ (o + a >= 10) =>
                   r.confidence.num * (o + a) = Max(o, a) * r.confidence.den
            /\ (0 < o + a /\ o + a < 10) =>
                   r.confidence.num * 10 = Max(o, a) * r.confidence.den

\* One keyword alone: owner with confidence 0.3.
C22_Witness ==
    /\ Classified
    /\ item.input = [text |-> {"vlasnyk"}, hint |-> NULL]
    /\ item.out[1] = [seller_type |-> "owner",
                       confidence |-> [num |-> 3, den |-> 10]]

\* ---------------------------------------------------------------- C23
\* No hint, keyword, phrase or heuristic fires on the input.
NoSignal(input) ==
    /\ input.hint \notin {"pryvatna osoba", "ahentstvo"}
    /\ \A f \in input.text :
           /\ owner_keywords(f) = {} /\ agency_keywords(f) = {}
           /\ owner_phrases(f) = {} /\ agency_phrases(f) = {}
           /\ f \notin {"long_professional", "two_phones"}

\* C23: for every input the confidence lies in [0, 1], and when no signal
\* fires the type is unknown and the confidence 0.
C23_ConfidenceInUnitInterval ==
    Classified =>
        LET r == item.out[1]
        IN  /\ r.confidence.den > 0
            /\ 0 <= r.confidence.num /\ r.confidence.num <= r.confidence.den
            /\ NoSignal(item.input) =>
                   (r.seller_type = "unknown" /\ r.confidence.num = 0)

\* An input whose winning score is above 1.0, and one without any signal.
C23_Witness ==
    /\ Classified
    /\ \/ owner_score(item.input.text, item.input.hint) > 10
       \/ NoSignal(item.input) /\ item.input.text # {}

\* ---------------------------------------------------------------- C24
Resolved ==
    item.fn \in {"determine_district", "determine_location"} /\ item.out # <<>>

\* The text the resolver looks at.
ResolverText ==
    IF item.fn = "determine_district"
    THEN item.input.location_text \cup item.input.description
    ELSE item.input.location_text

\* C24: the district resolver always returns a populated district: a street
\* match takes priority over the district-level heuristics, and when neither
\* matches the configured default district is returned; the district is
\* never null, and the call returns for every text.
C24_DistrictAlwaysPopulated ==
    Resolved =>
        LET r == item.out[1]
        IN  /\ ~r.raised
            /\ r.district # NULL
            /\ StreetsIn(ResolverText) # {} => r.street # NULL
            /\ (/\ StreetsIn(ResolverText) = {}
                /\ ResolverText \cap {"kaskad", "bilia_vokzalu"} = {}) =>
                   r.district = DEFAULT_DISTRICT

\* What holds of both resolvers: a street of the mapping decides the
\* district and the street, whatever else the text names.
C24_StreetMappingFirst ==
    (Resolved /\ StreetsIn(ResolverText) # {}) =>
        /\ item.out[1].district = "Tsentr"
        /\ item.out[1].street = "Shevchenka"

\* A text that names no street and no district.
C24_Witness ==
    /\ Resolved
    /\ ResolverText = {"misto"}
    /\ item.out[1].district = NULL

\* ---------------------------------------------------------------- C25
\* A container whose elements and id were found has been through the price
\* step.
PriceParsed ==
    /\ item.fn = "parse_listing_price" /\ item.out # <<>>
    /\ item.input.elements /\ item.input.olx_id # NULL

\* The text names a currency other than the target currency: it carries a
\* marker, and none of USD.
CurrencyMismatch(price_text) ==
    price_text.markers # {} /\ "USD" \notin price_text.markers

\* C25: a listing whose price text is unparseable or out of range (not a
\* positive value) is kept, with a null price, when its id and title were
\* found; only a listing whose currency is not the target currency is
\* excluded.
C25_BadPriceKeptAsNull ==
    PriceParsed =>
        LET price_text == item.input.price_text
            kept == item.out[1]
        IN  /\ (kept = <<>>) => CurrencyMismatch(price_text)
            /\ (/\ ~CurrencyMismatch(price_text)
                /\ price_text.number \in {NULL, "0"}) =>
                   (kept # <<>> /\ kept[1].price_usd = NULL)

\* What the price step does: a listing is kept exactly when its text has a
\* number and no currency other than USD takes precedence, and it is kept
\* with that number as its price.
C25_KeptWithNumberInUSD ==
    PriceParsed =>
        LET price_text == item.input.price_text
            kept == item.out[1]
        IN  /\ (kept # <<>>) <=>
                   (/\ price_text.number # NULL
                    /\ ("USD" \in price_text.markers \/ price_text.markers = {}))
            /\ (kept # <<>>) => kept[1].price_usd = price_text.number

\* A listing with id and title whose price text has no number is dropped.
C25_Witness ==
    /\ PriceParsed
    /\ item.input.price_text = [number |-> NULL, markers |-> {}]
    /\ item.out[1] = <<>>

C27_BatchSurvivesItemError ==
    [][RepositoryCall("batch") =>
        LET props == last_batch'.batch
            ok == Storable(props)
        IN  /\ last_batch'.errors = Len(props) - Cardinality(ok)
            /\ last_batch'.new + last_batch'.updated = Cardinality(ok)
            /\ \A i \in ok :
                   \E r \in offers' :
                       /\ r.ad_id = props[i].ad_id
                       /\ r.is_active
                       /\ r.last_seen_at = last_batch'.at
                       /\ (\A j \in ok : props[j].ad_id = r.ad_id => j <= i)
                              => r.price_value = props[i].price_value
            /\ \A id \in Ids \ {props[i].ad_id : i \in ok} :
                   existing(offers', id) = existing(offers, id)]_vars

\* C27 witness: a batch whose first candidate failed and whose second was
\* inserted.
C27_Witness ==
    /\ last_op.op = "batch"
    /\ Len(last_batch.batch) = 2
    /\ last_batch.batch[1].title = NULL
    /\ last_batch.batch[2].title # NULL
    /\ last_batch.errors = 1
    /\ last_batch.new = 1
    /\ \E r \in offers :
           r.ad_id = last_batch.batch[2].ad_id /\ r.last_seen_at = last_batch.at

\* ---------------------------------------------------------------- C28
\* C28: a run fetches at most max_pages pages, and it leaves the page loop
\* before max_pages fetches only at the first page without listings or when
\* a stop was requested.
C28_EarlyStopOnlyAtEmptyPage ==
    /\ Len(fetch_log) <= max_pages
    /\ (pc = "save" /\ Len(fetch_log) < max_pages) =>
           (Len(fetch_log) \in EmptyPages \/ stop_requested)

\* What the loop does: it never fetches more than max_pages pages, and it is
\* left before max_pages fetches only after a page that was fetched and
\* parsed, never after a failed fetch.
C28_EarlyStopOnlyAtPageWithoutProperty ==
    /\ Len(fetch_log) <= max_pages
    /\ (pc = "save" /\ Len(fetch_log) < max_pages) =>
           fetch_log[Len(fetch_log)].outcome = "parsed"

\* A run with max_pages = 2 has left the loop after page 1, which had listing
\* containers and none that parsed to a Property.
C28_Witness ==
    /\ pc = "save"
    /\ max_pages = 2
    /\ Len(fetch_log) = 1
    /\ fetch_log[1].outcome = "parsed"
    /\ fetch_log[1].containers > 0
    /\ properties = <<>>

\* ---------------------------------------------------------------- C29
\* C29: the task that stop_scraping_task cancelled never writes the status:
\* the step that sets 'cancelled' takes the task out of the created tasks
\* without its body having started, and 'cancelled' is never followed by
\* 'completed' or 'error'; it is overwritten only by 'running', written by
\* the body of another created task or by a later call of run_scraper.
C29_CancelledTaskNeverWrites ==
    [][/\ (LoopFree /\ status # "cancelled" /\ status' = "cancelled") =>
              (pending' = pending - 1 /\ pc' = pc)
       /\ (status = "cancelled" /\ status' # "cancelled") =>
              /\ status' = "running"
              /\ pc' \in {"call", "loop"}
              /\ pending' = pending - 1 \/ (pending = 0 /\ pending' = 0)]_vars

\* C29 witness: of two created tasks one was cancelled before any had
\* started; the other is still to start.
C29_Witness ==
    /\ status = "cancelled"
    /\ pc = "idle"
    /\ pending = 1
    /\ fetch_log = <<>>

\* ---------------------------------------------------------------- C30
\* C30: a run writes nothing to the store while its page loop is going: a
\* step taken inside the loop leaves the offers table and the price history
\* as they are, the table changes only in the save step that ends the run,
\* and in the loop and at its end total_processed is the number of
\* Properties accumulated in memory.
C30_NoWriteBeforeSaveStep ==
    /\ [](pc \in {"loop", "save"} => stats.total_processed = Len(properties))
    /\ [][/\ (pc = "loop") => (offers' = offers /\ price_history' = price_history)
          /\ (offers' # offers) => (pc = "save" /\ pc' = "done")]_vars

\* C30 witness: between page 1 and page 2 of the first run two Properties are
\* held in memory and the table is still empty.
C30_Witness ==
    /\ pc = "loop"
    /\ page = 1
    /\ Len(properties) = 2
    /\ stats.total_processed = 2
    /\ offers = {}

====
